---- MODULE Spec2Model ----
(***************************************************************************)
(* Smart Code Review API (src/BackendAPI-main.py): the analysis pipeline   *)
(* (generative analyzer with rule-based fallback), the review assembler,   *)
(* the in-memory review store and the team context aggregator.             *)
(*                                                                         *)
(* Text is modelled at character level: a Python str is a sequence of      *)
(* one-character strings, so that split, lstrip, substring tests and the   *)
(* regular expressions of the source are computed, not assumed.            *)
(***************************************************************************)
EXTENDS Integers, Sequences, FiniteSets, TLC

VARIABLES
    reviews_db,       \* the Review Store: insertion-ordered dict, a sequence of [key, val]
    team_context_db,  \* the Team Context Aggregator
    tasks,            \* background tasks added to the response, with their position
    now,              \* the wall clock, in seconds
    last,             \* the last operation served and its response
    request,          \* the CodeReviewRequest being analysed, and what the completion service does
    pc,               \* position of the analysed request in the pipeline
    llm_result,       \* the payload generate_llm_review returned
    path              \* which analyzer produced llm_result

vars == <<reviews_db, team_context_db, tasks, now, last, request, pc, llm_result, path>>

-----------------------------------------------------------------------------
(* Bounds of the model *)

\* longest code text enumerated line by line from LineVocab
MaxLines == 2
\* most filler lines between the first and the last line of a padded code text
MaxPad == 21

-----------------------------------------------------------------------------
(* Python helpers *)

Min(a, b) == IF a < b THEN a ELSE b
Max(a, b) == IF a > b THEN a ELSE b

\* s[:n]
Take(s, n) == SubSeq(s, 1, Min(n, Len(s)))

Lower == {"a","b","c","d","e","f","g","h","i","j","k","l","m",
          "n","o","p","q","r","s","t","u","v","w","x","y","z"}
Upper == {"A","B","C","D","E","F","G","H","I","J","K","L","M",
          "N","O","P","Q","R","S","T","U","V","W","X","Y","Z"}
Digit == {"0","1","2","3","4","5","6","7","8","9"}

\* \w of the re module
WordChar == Lower \cup Upper \cup Digit \cup {"_"}
\* \s of the re module, and what str.strip removes
WhiteSpace == {" ", "\t", "\r"}

\* pat occurs in s at position p
MatchAt(s, p, pat) ==
    /\ p >= 1
    /\ p + Len(pat) - 1 <= Len(s)
    /\ \A k \in 1..Len(pat) : s[p + k - 1] = pat[k]

\* Python's  pat in s
Contains(s, pat) == \E p \in 1..(Len(s) + 1) : MatchAt(s, p, pat)

\* \b between s[p-1] and s[p]
Boundary(s, p) ==
    LET before == p >= 2 /\ p - 1 <= Len(s) /\ s[p - 1] \in WordChar
        after == p >= 1 /\ p <= Len(s) /\ s[p] \in WordChar
    IN before # after

\* code.split('\n'): the pieces between consecutive newlines, one more than there are newlines
split(s) ==
    LET nl == {i \in 1..Len(s) : s[i] = "\n"}
        n == Cardinality(nl)
        pos(k) == IF k = 0 THEN 0
                  ELSE IF k = n + 1 THEN Len(s) + 1
                  ELSE CHOOSE p \in nl : Cardinality({q \in nl : q <= p}) = k
    IN [k \in 1..(n + 1) |-> SubSeq(s, pos(k - 1) + 1, pos(k) - 1)]

\* len(line) - len(line.lstrip())
RECURSIVE LeadingSpace(_, _)
LeadingSpace(line, i) ==
    IF i <= Len(line) /\ line[i] \in WhiteSpace THEN 1 + LeadingSpace(line, i + 1) ELSE 0

\* l.strip() is non-empty
NonBlank(line) == \E i \in 1..Len(line) : line[i] \notin WhiteSpace

W_TODO == <<"T","O","D","O">>
W_FIXME == <<"F","I","X","M","E">>
W_print == <<"p","r","i","n","t","(">>
W_consolelog == <<"c","o","n","s","o","l","e",".","l","o","g","(">>
W_for == <<"f","o","r">>
W_try == <<"t","r","y",":">>
W_except == <<"e","x","c","e","p","t">>
ControlWords == {<<"i","f">>, W_for, <<"w","h","i","l","e">>,
                 <<"s","w","i","t","c","h">>, <<"c","a","s","e">>}

\* re.search(r'\b(print|console\.log)\(', line)
DebugMatch(line) ==
    \E p \in 1..Len(line) :
        /\ Boundary(line, p)
        /\ MatchAt(line, p, W_print) \/ MatchAt(line, p, W_consolelog)

\* zero or more \s from position p, then '='
RECURSIVE SpacesThenEq(_, _)
SpacesThenEq(line, p) ==
    IF p > Len(line) THEN FALSE
    ELSE IF line[p] = "=" THEN TRUE
    ELSE IF line[p] \in WhiteSpace THEN SpacesThenEq(line, p + 1)
    ELSE FALSE

\* re.search(r'\b[a-z]\s*=\s*', line)
ShortVarMatch(line) ==
    \E p \in 1..Len(line) :
        /\ line[p] \in Lower
        /\ Boundary(line, p)
        /\ SpacesThenEq(line, p + 1)

\* len(re.findall(r'\b(if|for|while|switch|case)\b', line)): the matches are whole
\* words, so they never overlap and each starting position counts once
ControlCount(line) ==
    Cardinality({p \in 1..Len(line) :
        \E w \in ControlWords :
            /\ MatchAt(line, p, w)
            /\ Boundary(line, p)
            /\ Boundary(line, p + Len(w))})

RECURSIVE SumSeq(_)
SumSeq(s) == IF s = <<>> THEN 0 ELSE Head(s) + SumSeq(Tail(s))

RECURSIVE MaxSeq(_)
MaxSeq(s) == IF s = <<>> THEN 0 ELSE Max(Head(s), MaxSeq(Tail(s)))

-----------------------------------------------------------------------------
(* JSON / Python values: a value carries its type as the name of its field *)

Num(n) == [num |-> n]
Str(s) == [str |-> s]
Bool(b) == [bool |-> b]
Arr(s) == [arr |-> s]
\* a dict: a sequence of <<key, value>> pairs with distinct keys, in insertion order
Obj(s) == [obj |-> s]
Null == [null |-> TRUE]

IsNum(v) == "num" \in DOMAIN v
IsStr(v) == "str" \in DOMAIN v
IsBool(v) == "bool" \in DOMAIN v
IsArr(v) == "arr" \in DOMAIN v
IsObj(v) == "obj" \in DOMAIN v

HasKey(d, k) == \E i \in 1..Len(d.obj) : d.obj[i][1] = k

\* d.get(k, default)
Get(d, k, default) ==
    IF HasKey(d, k)
    THEN LET i == CHOOSE i \in 1..Len(d.obj) : d.obj[i][1] = k IN d.obj[i][2]
    ELSE default

\* d[k] = v on an insertion-ordered dict: an existing key keeps its place
Put(d, k, v) ==
    IF \E i \in 1..Len(d) : d[i][1] = k
    THEN [i \in 1..Len(d) |-> IF d[i][1] = k THEN <<k, v>> ELSE d[i]]
    ELSE Append(d, <<k, v>>)

-----------------------------------------------------------------------------
(* analyze_code_complexity *)

analyze_code_complexity(code) ==
    LET lines == split(code)
        max_nesting == MaxSeq([i \in 1..Len(lines) |-> LeadingSpace(lines[i], 1) \div 4])
        control_structures == SumSeq([i \in 1..Len(lines) |-> ControlCount(lines[i])])
    IN [total_lines |-> Len(lines),
        code_lines |-> Cardinality({i \in 1..Len(lines) : NonBlank(lines[i])}),
        max_nesting |-> max_nesting,
        control_structures |-> control_structures,
        complexity_score |-> Min(100, (max_nesting * 10) + (control_structures * 2))]

-----------------------------------------------------------------------------
(* generate_fallback_review *)

TodoIssue(i) ==
    Obj(<< <<"severity", Str("low")>>,
           <<"title", Str("Unresolved TODO/FIXME")>>,
           <<"description", Str("Line " \o ToString(i) \o " contains unresolved TODO or FIXME comment")>>,
           <<"line", Num(i)>>,
           <<"impact", Str("Low")>>,
           <<"fix_time", Str("5 min")>>,
           <<"business_impact", Str("Code maintainability")>>,
           <<"suggestion", Str("Address the TODO or create a ticket to track it")>>,
           <<"auto_fix_available", Bool(FALSE)>> >>)

DebugIssue(i) ==
    Obj(<< <<"severity", Str("low")>>,
           <<"title", Str("Debug Statement Found")>>,
           <<"description", Str("Line " \o ToString(i) \o " contains a print/log statement that should be removed")>>,
           <<"line", Num(i)>>,
           <<"impact", Str("Low")>>,
           <<"fix_time", Str("1 min")>>,
           <<"business_impact", Str("Production logs pollution")>>,
           <<"suggestion", Str("Remove debug statement or use proper logging")>>,
           <<"auto_fix_available", Bool(TRUE)>> >>)

ShortVarIssue(i) ==
    Obj(<< <<"severity", Str("low")>>,
           <<"title", Str("Non-descriptive Variable Name")>>,
           <<"description", Str("Line " \o ToString(i) \o " uses a single-letter variable name")>>,
           <<"line", Num(i)>>,
           <<"impact", Str("Low")>>,
           <<"fix_time", Str("2 min")>>,
           <<"business_impact", Str("Code readability")>>,
           <<"suggestion", Str("Use a descriptive variable name")>>,
           <<"auto_fix_available", Bool(FALSE)>> >>)

TryIssue(i) ==
    Obj(<< <<"severity", Str("medium")>>,
           <<"title", Str("Incomplete Error Handling")>>,
           <<"description", Str("Line " \o ToString(i) \o " has try block without except clause")>>,
           <<"line", Num(i)>>,
           <<"impact", Str("Medium")>>,
           <<"fix_time", Str("10 min")>>,
           <<"business_impact", Str("Potential unhandled exceptions")>>,
           <<"suggestion", Str("Add except clause with proper error handling")>>,
           <<"auto_fix_available", Bool(TRUE)>> >>)

\* the lookahead of the source: for j in range(i, min(i+20, len(lines))), where i is the
\* 1-based number of the try line and lines[j] is 0-based, i.e. line number j+1
\* (mutant) the lookahead stops one line early: range(i, min(i+19, len(lines)))
has_except_short(lines, i) ==
    \E j \in i..(Min(i + 19, Len(lines)) - 1) : Contains(lines[j + 1], W_except)

has_except(lines, i) ==
    \E j \in i..(Min(i + 20, Len(lines)) - 1) : Contains(lines[j + 1], W_except)

\* 'TODO' in line or 'FIXME' in line
TodoMatch(line) == Contains(line, W_TODO) \/ Contains(line, W_FIXME)

\* (mutant) the FIXME marker is forgotten
TodoRule_noFixme(lines, i) ==
    IF Contains(lines[i], W_TODO) THEN <<TodoIssue(i)>> ELSE <<>>

TodoRule(lines, i) ==
    IF TodoMatch(lines[i]) THEN <<TodoIssue(i)>> ELSE <<>>

\* (mutant) console.log is forgotten
DebugRule_printOnly(lines, i) ==
    IF \E p \in 1..Len(lines[i]) : Boundary(lines[i], p) /\ MatchAt(lines[i], p, W_print)
    THEN <<DebugIssue(i)>> ELSE <<>>

DebugRule(lines, i) ==
    IF DebugMatch(lines[i]) THEN <<DebugIssue(i)>> ELSE <<>>

ShortVarRule(lines, i) ==
    IF ShortVarMatch(lines[i]) /\ ~Contains(lines[i], W_for) THEN <<ShortVarIssue(i)>> ELSE <<>>

TryRule(lines, i) ==
    IF Contains(lines[i], W_try) /\ ~has_except(lines, i) THEN <<TryIssue(i)>> ELSE <<>>

\* one iteration of the scan loop: what line i appends to issues
LineIssues(lines, i) ==
    TodoRule(lines, i) \o DebugRule(lines, i) \o ShortVarRule(lines, i) \o TryRule(lines, i)

\* the local list issues when the scan loop has run over lines 1..n
RECURSIVE ScanUpTo(_, _)
ScanUpTo(lines, n) ==
    IF n = 0 THEN <<>> ELSE ScanUpTo(lines, n - 1) \o LineIssues(lines, n)

\* the local list issues after the whole loop, before the payload is built
FallbackScan(code) ==
    LET lines == split(code) IN ScanUpTo(lines, Len(lines))

\* (mutant) issues[-10:], the last ten
ReturnedIssues_last(issues) == SubSeq(issues, Max(1, Len(issues) - 9), Len(issues))

\* issues[:10]
ReturnedIssues(issues) == Take(issues, 10)

\* (mutant) the subtraction from 100 is forgotten
FallbackScore_raw(complexity) == Max(50, complexity.complexity_score)

\* (mutant) the floor of 50 is forgotten
FallbackScore_noFloor(complexity) == 100 - complexity.complexity_score

FallbackScore(complexity) == Max(50, 100 - complexity.complexity_score)

generate_fallback_review(code, language) ==
    LET issues == FallbackScan(code)
        complexity == analyze_code_complexity(code)
    IN Obj(<< <<"score", Num(FallbackScore(complexity))>>,
              <<"issues", Arr(ReturnedIssues(issues))>>,
              <<"metrics", Obj(<< <<"complexity", Str(IF complexity.complexity_score < 50
                                                     THEN "Medium" ELSE "High")>>,
                                  <<"maintainability", Str("Good")>>,
                                  <<"security", Str("Needs Review")>>,
                                  <<"performance", Str("Good")>> >>)>>,
              <<"team_insights", Arr(<<Str("Consider adding more comments for complex logic"),
                                       Str("Follow consistent naming conventions"),
                                       Str("Add unit tests for critical functions")>>)>> >>)


-----------------------------------------------------------------------------
(* The completion service's response text, as the tokens json.loads reads.  *)
(* Strings and commentary words hold no brace, so the first '{' and the     *)
(* last '}' of the text are its first and last brace tokens.                *)

LBrace == [p |-> "{"]
RBrace == [p |-> "}"]
LBracket == [p |-> "["]
RBracket == [p |-> "]"]
Colon == [p |-> ":"]
Comma == [p |-> ","]
\* a JSON string literal, a JSON number, one of true / false / null, a word of commentary
TStr(x) == [s |-> x]
TNum(n) == [n |-> n]
TLit(x) == [lit |-> x]
TWord(x) == [w |-> x]

ParseFail == [ok |-> FALSE, val |-> Null, next |-> 0]

\* json.loads, by recursive descent: the value that starts at token i and where it ends
RECURSIVE ParseValue(_, _), ParseMembers(_, _, _), ParseElements(_, _, _)
ParseValue(t, i) ==
    IF i > Len(t) THEN ParseFail
    ELSE IF "s" \in DOMAIN t[i] THEN [ok |-> TRUE, val |-> Str(t[i].s), next |-> i + 1]
    ELSE IF "n" \in DOMAIN t[i] THEN [ok |-> TRUE, val |-> Num(t[i].n), next |-> i + 1]
    ELSE IF "lit" \in DOMAIN t[i]
         THEN [ok |-> TRUE,
               val |-> IF t[i].lit = "null" THEN Null ELSE Bool(t[i].lit = "true"),
               next |-> i + 1]
    ELSE IF t[i] = LBrace
         THEN IF i + 1 <= Len(t) /\ t[i + 1] = RBrace
              THEN [ok |-> TRUE, val |-> Obj(<<>>), next |-> i + 2]
              ELSE ParseMembers(t, i + 1, <<>>)
    ELSE IF t[i] = LBracket
         THEN IF i + 1 <= Len(t) /\ t[i + 1] = RBracket
              THEN [ok |-> TRUE, val |-> Arr(<<>>), next |-> i + 2]
              ELSE ParseElements(t, i + 1, <<>>)
    ELSE ParseFail

\* "key": value pairs from token i; a repeated key keeps its last value
ParseMembers(t, i, acc) ==
    IF i + 1 > Len(t) \/ "s" \notin DOMAIN t[i] \/ t[i + 1] # Colon THEN ParseFail
    ELSE LET v == ParseValue(t, i + 2)
         IN IF ~v.ok \/ v.next > Len(t) THEN ParseFail
            ELSE IF t[v.next] = Comma THEN ParseMembers(t, v.next + 1, Put(acc, t[i].s, v.val))
            ELSE IF t[v.next] = RBrace
                 THEN [ok |-> TRUE, val |-> Obj(Put(acc, t[i].s, v.val)), next |-> v.next + 1]
            ELSE ParseFail

ParseElements(t, i, acc) ==
    LET v == ParseValue(t, i)
    IN IF ~v.ok \/ v.next > Len(t) THEN ParseFail
       ELSE IF t[v.next] = Comma THEN ParseElements(t, v.next + 1, Append(acc, v.val))
       ELSE IF t[v.next] = RBracket
            THEN [ok |-> TRUE, val |-> Arr(Append(acc, v.val)), next |-> v.next + 1]
       ELSE ParseFail

\* json.loads(text): the whole text must be one value, else JSONDecodeError
json_loads(t) ==
    LET v == ParseValue(t, 1)
    IN IF v.ok /\ v.next = Len(t) + 1 THEN [ok |-> TRUE, val |-> v.val] ELSE [ok |-> FALSE, val |-> Null]

\* re.search(r'\{.*\}', content, re.DOTALL): from the leftmost '{' that has a '}' after
\* it, greedily to the last '}' of the text
json_match(content) ==
    LET lb == {i \in 1..Len(content) : content[i] = LBrace}
        rb == {i \in 1..Len(content) : content[i] = RBrace}
        starts == {i \in lb : \E j \in rb : j > i}
    IN IF starts = {} THEN [found |-> FALSE, group |-> <<>>]
       ELSE LET a == CHOOSE i \in starts : \A k \in starts : i <= k
                b == CHOOSE j \in rb : \A k \in rb : k <= j
            IN [found |-> TRUE, group |-> SubSeq(content, a, b)]

-----------------------------------------------------------------------------
(* generate_llm_review: service is what openai.ChatCompletion.create does, *)
(* [raises |-> TRUE] or [raises |-> FALSE, content |-> tokens]             *)

\* the try block: the decoded payload, or the exception that reaches the except clause
LlmTry(service) ==
    IF service.raises THEN [ok |-> FALSE, val |-> Null]
    ELSE LET m == json_match(service.content)
         IN IF m.found THEN json_loads(m.group) ELSE [ok |-> FALSE, val |-> Null]

\* (mutant) the except clause returns an empty payload instead of the fallback review
generate_llm_review_empty(code, language, service) ==
    LET r == LlmTry(service)
    IN IF r.ok THEN [result |-> r.val, path |-> "llm"]
       ELSE [result |-> Obj(<<>>), path |-> "fallback"]

generate_llm_review(code, language, service) ==
    LET r == LlmTry(service)
    IN IF r.ok THEN [result |-> r.val, path |-> "llm"]
       ELSE [result |-> generate_fallback_review(code, language), path |-> "fallback"]

-----------------------------------------------------------------------------
(* review_code: the Review Assembler.  Field validation is pydantic's: an   *)
(* int field takes a number, a str field a string, a bool field a boolean.  *)
(* The payloads enumerated below hold no value pydantic would coerce        *)
(* (a numeric string for an int, a number for a str).                       *)

\* mock previous score of calculate_improvement
previous_avg == 70

calculate_improvement(current_score, team_id) ==
    LET diff == current_score - previous_avg
    IN IF diff > 0 THEN "+" \o ToString(diff) ELSE ToString(diff)

\* review_id = f"review_{datetime.now().strftime('%Y%m%d_%H%M%S')}": one id per second
ReviewId(t) == "review_" \o ToString(t)

\* what enumerate(llm_result.get('issues', []), 1) walks: a list's elements; an empty
\* dict or str yields nothing; anything else raises inside the loop header or body
IssueItems(payload) ==
    LET v == Get(payload, "issues", Arr(<<>>))
    IN IF IsArr(v) THEN [ok |-> TRUE, items |-> v.arr]
       ELSE IF (IsObj(v) /\ v.obj = <<>>) \/ (IsStr(v) /\ v.str = "")
            THEN [ok |-> TRUE, items |-> <<>>]
       ELSE [ok |-> FALSE, items |-> <<>>]

\* the .get calls of one Issue(...) construction, with their defaults
IssueFields(issue) ==
    [severity |-> Get(issue, "severity", Str("low")),
     title |-> Get(issue, "title", Str("Unknown Issue")),
     description |-> Get(issue, "description", Str("")),
     line |-> Get(issue, "line", Num(1)),
     impact |-> Get(issue, "impact", Str("Low")),
     fix_time |-> Get(issue, "fix_time", Str("10 min")),
     business_impact |-> Get(issue, "business_impact", Str("Minor impact")),
     suggestion |-> Get(issue, "suggestion", Str("Review and fix")),
     auto_fix_available |-> Get(issue, "auto_fix_available", Bool(FALSE))]

\* Issue(...) validates: issue must be a dict (it has .get) and each field of its type
IssueValid(issue) ==
    /\ IsObj(issue)
    /\ LET f == IssueFields(issue)
       IN /\ \A k \in {"severity", "title", "description", "impact", "fix_time",
                       "business_impact", "suggestion"} : IsStr(f[k])
          /\ IsNum(f.line)
          /\ IsBool(f.auto_fix_available)

\* (mutant) enumerate without its start argument: ids from 0
IssueId_zeroBased(idx) == idx - 1

\* the id given to the idx-th issue of the payload: enumerate(..., 1)
IssueId(idx) == idx

FormatIssue(idx, issue) ==
    LET f == IssueFields(issue)
    IN [id |-> IssueId(idx),
        severity |-> f.severity.str,
        title |-> f.title.str,
        description |-> f.description.str,
        line |-> f.line.num,
        impact |-> f.impact.str,
        fix_time |-> f.fix_time.str,
        business_impact |-> f.business_impact.str,
        suggestion |-> f.suggestion.str,
        auto_fix_available |-> f.auto_fix_available.bool,
        code_snippet |-> Null]

\* the issues list built by the loop, in the order of the payload
FormatIssues(items) == [idx \in 1..Len(items) |-> FormatIssue(idx, items[idx])]

\* score = llm_result.get('score', 75)
ReviewScore(payload) == Get(payload, "score", Num(75))

\* (mutant) the default complexity rating is spelled "Low"
DefaultMetrics_low ==
    Obj(<< <<"complexity", Str("Low")>>, <<"maintainability", Str("Good")>>,
           <<"security", Str("Good")>>, <<"performance", Str("Good")>> >>)

DefaultMetrics ==
    Obj(<< <<"complexity", Str("Medium")>>, <<"maintainability", Str("Good")>>,
           <<"security", Str("Good")>>, <<"performance", Str("Good")>> >>)

DefaultInsights ==
    Arr(<<Str("Code follows team conventions"), Str("Consider adding more test coverage")>>)

\* metrics: Dict[str, str]
MetricsValid(m) == IsObj(m) /\ \A i \in 1..Len(m.obj) : IsStr(m.obj[i][2])

\* team_insights: List[str]
InsightsValid(v) == IsArr(v) /\ \A i \in 1..Len(v.arr) : IsStr(v.arr[i])

\* everything between generate_llm_review and the store: the Review, or the exception
\* the except clause turns into HTTP 500
AssembleReview(payload, team_id, t) ==
    LET items == IssueItems(payload)
        score == ReviewScore(payload)
        metrics == Get(payload, "metrics", DefaultMetrics)
        insights == Get(payload, "team_insights", DefaultInsights)
        ok == /\ items.ok
              /\ \A i \in 1..Len(items.items) : IssueValid(items.items[i])
              /\ IsNum(score)
              /\ MetricsValid(metrics)
              /\ InsightsValid(insights)
    IN IF ~ok THEN [ok |-> FALSE, review |-> Null]
       ELSE [ok |-> TRUE,
             review |-> [review_id |-> ReviewId(t),
                         score |-> score.num,
                         improvement |-> calculate_improvement(score.num, team_id),
                         priority |-> FormatIssues(items.items),
                         metrics |-> [i \in 1..Len(metrics.obj) |->
                                         <<metrics.obj[i][1], metrics.obj[i][2].str>>],
                         team_insights |-> [i \in 1..Len(insights.arr) |-> insights.arr[i].str],
                         timestamp |-> t]]

-----------------------------------------------------------------------------
(* The code texts submitted: lines of the kinds the analyzers react to *)
\* ''
L_empty == <<>>
\* '# TODO'
L_todo == <<"#"," ","T","O","D","O">>
\* 'x = 1 # FIXME'
L_fixme == <<"x"," ","="," ","1"," ","#"," ","F","I","X","M","E">>
\* 'print(x)'
L_print == <<"p","r","i","n","t","(","x",")">>
\* 'sprint(x)'
L_sprint == <<"s","p","r","i","n","t","(","x",")">>
\* '  console.log(x)'
L_log == <<" "," ","c","o","n","s","o","l","e",".","l","o","g","(","x",")">>
\* 'n=0'
L_assign == <<"n","=","0">>
\* 'for(i=0;;)'
L_forassign == <<"f","o","r","(","i","=","0",";",";",")">>
\* 'ab = 1'
L_long == <<"a","b"," ","="," ","1">>
\* 'try:'
L_try == <<"t","r","y",":">>
\* 'except:'
L_except == <<"e","x","c","e","p","t",":">>
\* '    if x:'
L_if4 == <<" "," "," "," ","i","f"," ","x",":">>
\* '                        while case'
L_deep == <<" "," "," "," "," "," "," "," "," "," "," "," "," "," "," "," "," "," "," "," "," "," "," "," ","w","h","i","l","e"," ","c","a","s","e">>
\* '    '
L_blank4 == <<" "," "," "," ">>
\* 'try: x = 1 # TODO print(x)'
L_all == <<"t","r","y",":"," ","x"," ","="," ","1"," ","#"," ","T","O","D","O"," ","p","r","i","n","t","(","x",")">>
\* 'try: x except'
L_tryexcept == <<"t","r","y",":"," ","x"," ","e","x","c","e","p","t">>
\* '\tpass'
L_tab == <<"\t","p","a","s","s">>
LineVocab == {L_empty, L_todo, L_fixme, L_print, L_sprint, L_log, L_assign, L_forassign, L_long, L_try, L_except, L_if4, L_deep, L_blank4, L_all, L_tryexcept, L_tab}

\* '\n'.join(lines)
RECURSIVE JoinLines(_)
JoinLines(lines) ==
    IF Len(lines) = 0 THEN <<>>
    ELSE IF Len(lines) = 1 THEN lines[1]
    ELSE lines[1] \o <<"\n">> \o JoinLines(Tail(lines))

RECURSIVE SeqsUpTo(_, _)
SeqsUpTo(S, n) ==
    IF n = 0 THEN {<<>>}
    ELSE LET shorter == SeqsUpTo(S, n - 1)
         IN shorter \cup {Append(s, x) : s \in {t \in shorter : Len(t) = n - 1}, x \in S}

\* every code text of at most MaxLines lines over LineVocab; the empty text is one empty line
ShortCodes == {JoinLines(ls) : ls \in SeqsUpTo(LineVocab, MaxLines)}

PadHeads == {L_try, L_all, L_todo}
PadFillers == {L_empty, L_fixme, L_try}
PadTails == {L_except, L_todo, L_print, L_try}

\* a first line, k filler lines, a last line
Padded(head, filler, k, tail) == JoinLines(<<head>> \o [i \in 1..k |-> filler] \o <<tail>>)

LongCodes ==
    {Padded(h, f, k, t) : h \in PadHeads, f \in PadFillers, k \in 0..MaxPad, t \in PadTails}

CodeInputs == ShortCodes \cup LongCodes

-----------------------------------------------------------------------------
(* What the completion service answers: payloads, written out as JSON text  *)
(* between optional commentary, cut short, or no JSON at all                *)

\* json.dumps: the text of a value
RECURSIVE Encode(_), EncodeMembers(_, _), EncodeElements(_, _)
Encode(v) ==
    IF IsNum(v) THEN <<TNum(v.num)>>
    ELSE IF IsStr(v) THEN <<TStr(v.str)>>
    ELSE IF IsBool(v) THEN <<TLit(IF v.bool THEN "true" ELSE "false")>>
    ELSE IF IsArr(v) THEN <<LBracket>> \o EncodeElements(v.arr, 1) \o <<RBracket>>
    ELSE IF IsObj(v) THEN <<LBrace>> \o EncodeMembers(v.obj, 1) \o <<RBrace>>
    ELSE <<TLit("null")>>

EncodeMembers(d, i) ==
    IF i > Len(d) THEN <<>>
    ELSE <<TStr(d[i][1]), Colon>> \o Encode(d[i][2])
         \o (IF i < Len(d) THEN <<Comma>> ELSE <<>>) \o EncodeMembers(d, i + 1)

EncodeElements(a, i) ==
    IF i > Len(a) THEN <<>>
    ELSE Encode(a[i]) \o (IF i < Len(a) THEN <<Comma>> ELSE <<>>) \o EncodeElements(a, i + 1)

I_full ==
    Obj(<< <<"severity", Str("high")>>, <<"title", Str("SQL Injection")>>,
           <<"description", Str("Query built by string concatenation")>>, <<"line", Num(45)>>,
           <<"impact", Str("High")>>, <<"fix_time", Str("30 min")>>,
           <<"business_impact", Str("Could leak user data")>>,
           <<"suggestion", Str("Use parameterized queries")>>,
           <<"auto_fix_available", Bool(TRUE)>> >>)
I_debug == Obj(<< <<"severity", Str("low")>>, <<"title", Str("DEBUG STATEMENT FOUND")>> >>)
I_empty == Obj(<<>>)
I_badline == Obj(<< <<"title", Str("SQL Injection")>>, <<"line", Str("forty")>> >>)

ScoreOpts == {<<>>} \cup {<< <<"score", v>> >> :
                 v \in {Num(-5), Num(0), Num(85), Num(100), Num(150), Str("high")}}

IssuesOpts == {<<>>} \cup {<< <<"issues", v>> >> :
                 v \in {Arr(<<>>), Arr(<<I_full>>), Arr(<<I_debug, I_full>>),
                        Arr(<<I_full, I_empty, I_debug>>), Num(3), Arr(<<Num(1)>>),
                        Arr(<<I_full, I_badline>>), Obj(<<>>)}}

MetricsOpts == {<<>>} \cup {<< <<"metrics", v>> >> :
                 v \in {Obj(<< <<"complexity", Str("Good")>>, <<"maintainability", Str("Medium")>>,
                               <<"security", Str("Poor")>>, <<"performance", Str("Excellent")>> >>),
                        Obj(<< <<"complexity", Arr(<<>>)>> >>)}}

InsightsOpts == {<<>>} \cup {<< <<"team_insights", Arr(<<Str("Insight 1"), Str("Insight 2")>>)>> >>}

Payloads ==
    {Obj(sc \o is) : sc \in ScoreOpts, is \in IssuesOpts}
    \cup {Obj(<< <<"score", Num(85)>>, <<"issues", Arr(<<I_full>>)>> >> \o m \o ti) :
             m \in MetricsOpts, ti \in InsightsOpts}

Commentary ==
    {<<>>,
     <<TWord("Here"), TWord("is"), TWord("the"), TWord("review")>>,
     <<TWord("see"), LBrace, TWord("note"), RBrace>>}

\* a response cut by max_tokens, and responses that hold no JSON object
Broken ==
    LET full == Encode(Obj(<< <<"score", Num(85)>>, <<"issues", Arr(<<I_debug>>)>> >>))
    IN {SubSeq(full, 1, n) : n \in 0..(Len(full) - 1)}
       \cup {<<TWord("Sorry")>>, <<RBrace, TWord("x"), LBrace>>, <<LBrace, TWord("x"), RBrace>>,
             <<LBrace, TStr("score"), Colon, TNum(85), Comma, RBrace>>,
             <<LBracket, LBrace, TStr("score"), Colon, TNum(85), RBrace, RBracket>>}

Contents ==
    {pre \o Encode(v) \o post : pre \in Commentary, v \in Payloads, post \in Commentary}
    \cup Broken

ServiceRaises == [raises |-> TRUE, content |-> <<>>]
Services == {ServiceRaises} \cup {[raises |-> FALSE, content |-> c] : c \in Contents}

Languages == {"python", "javascript"}
Teams == {"default", "team-a"}

-----------------------------------------------------------------------------
(* State *)

\* most reviews accepted in one run of the service
MaxReviews == 2
\* last second of the wall clock
MaxClock == 1
\* largest limit asked of list_reviews
MaxLimit == 2

\* the response served last: the operation, its argument, the HTTP status and the body
NoResponse == [op |-> "none", arg |-> Null, status |-> 0, body |-> Null]
Respond(op, arg, status, body) == [op |-> op, arg |-> arg, status |-> status, body |-> body]
NoRequest == [code |-> <<>>, language |-> "python", team_id |-> "default",
              service |-> ServiceRaises, calls |-> 0, via |-> "review_code"]

\* reviews_db = {} and team_context_db as the module creates them
StoreInit ==
    /\ reviews_db = <<>>
    /\ team_context_db = [reviews_count |-> 0, common_patterns |-> <<>>,
                          common_issues |-> <<>>, team_preferences |-> <<>>]
    /\ tasks = <<>>
    /\ now = 0
    /\ last = NoResponse

Keys(db) == {db[i][1] : i \in 1..Len(db)}
Lookup(db, k) == LET i == CHOOSE i \in 1..Len(db) : db[i][1] = k IN db[i][2]

-----------------------------------------------------------------------------
(* POST /api/review *)

\* the handler is entered with the parsed CodeReviewRequest
Receive(code, language, team_id, service) ==
    /\ pc = "idle"
    /\ request' = [code |-> code, language |-> language, team_id |-> team_id,
                   service |-> service, calls |-> 0, via |-> "review_code"]
    /\ pc' = "received"
    /\ UNCHANGED <<reviews_db, team_context_db, tasks, now, last, llm_result, path>>

\* Path(filename).suffix.lower(): from the last dot of the name, unless the name starts with it
ToLower(c) ==
    CASE c = "P" -> "p" [] c = "Y" -> "y" [] c = "J" -> "j" [] c = "S" -> "s"
      [] OTHER -> c

Suffix(filename) ==
    LET dots == {i \in 2..Len(filename) : filename[i] = "."}
    IN IF dots = {} THEN <<>>
       ELSE LET p == CHOOSE i \in dots : \A j \in dots : j <= i
            IN IF p = Len(filename) THEN <<>>
               ELSE [k \in 1..(Len(filename) - p + 1) |-> ToLower(filename[p + k - 1])]

\* detect_language, with the entries of ext_map that the file names used here can reach
detect_language(filename, code) ==
    LET ext == Suffix(filename)
    IN IF ext = <<".", "p", "y">> THEN "python"
       ELSE IF ext = <<".", "j", "s">> THEN "javascript"
       ELSE IF Contains(code, <<"d","e","f"," ">>) /\ Contains(code, <<"i","m","p","o","r","t"," ">>)
            THEN "python"
       ELSE IF Contains(code, <<"f","u","n","c","t","i","o","n"," ">>)
               \/ Contains(code, <<"c","o","n","s","t"," ">>)
            THEN "javascript"
       ELSE "unknown"

\* POST /api/review/file: read and decode the upload, detect the language and enter
\* review_code; bytes that are not UTF-8 end the request with HTTP 500
ReceiveFile(file, team_id, service) ==
    /\ pc = "idle"
    /\ IF file.utf8
       THEN /\ request' = [code |-> file.text,
                           language |-> detect_language(file.filename, file.text),
                           team_id |-> team_id, service |-> service, calls |-> 0,
                           via |-> "review_file"]
            /\ pc' = "received"
            /\ UNCHANGED last
       ELSE /\ last' = Respond("review_file", Null, 500, Null)
            /\ UNCHANGED <<request, pc>>
    /\ UNCHANGED <<reviews_db, team_context_db, tasks, now, llm_result, path>>

\* openai.ChatCompletion.create is called: it raises or returns its content
CallService ==
    /\ pc = "received"
    /\ request' = [request EXCEPT !.calls = @ + 1]
    /\ pc' = "responded"
    /\ UNCHANGED <<reviews_db, team_context_db, tasks, now, last, llm_result, path>>

\* the rest of generate_llm_review: extract and decode, or fall back
Analyze ==
    /\ pc = "responded"
    /\ LET r == generate_llm_review(request.code, request.language, request.service)
       IN /\ llm_result' = r.result
          /\ path' = r.path
    /\ pc' = "analyzed"
    /\ UNCHANGED <<reviews_db, team_context_db, tasks, now, last, request>>

\* (mutant) the update is started inside the handler: it has read reviews_count already
NewTask_started(team_id, review, via) ==
    [team_id |-> team_id, review |-> review, pc |-> "write_count", idx |-> 1,
     tmp |-> team_context_db.reviews_count]

\* a task as background_tasks.add_task(update_team_context, team_id, review) queues it.
\* review_code reached through FastAPI gets the BackgroundTasks of the response, which
\* runs its tasks; review_file hands it BackgroundTasks(), an object nobody runs
NewTask(team_id, review, via) ==
    [team_id |-> team_id, review |-> review,
     pc |-> IF via = "review_code" THEN "read_count" ELSE "dropped", idx |-> 1, tmp |-> 0]

\* (mutant) the key loses its timestamp: every review is stored under "review_"
StoreReview_fixedKey(db, review) == Put(db, "review_", review)

\* reviews_db[review_id] = review.dict(): the dict holds the fields of the model
StoreReview(db, review) == Put(db, review.review_id, review)

\* (mutant) the store is written under the new key before the Review is validated, so a
\* payload that cannot be assembled leaves an entry behind
Assemble_storeFirst ==
    /\ pc = "analyzed"
    /\ LET a == AssembleReview(llm_result, request.team_id, now)
       IN /\ reviews_db' = Put(reviews_db, ReviewId(now), a.review)
          /\ IF a.ok
             THEN /\ tasks' = Append(tasks, NewTask(request.team_id, a.review, request.via))
                  /\ last' = Respond(request.via, Null, 200, a.review)
             ELSE /\ last' = Respond(request.via, Null, 500, Null)
                  /\ UNCHANGED tasks
    /\ pc' = "idle"
    /\ UNCHANGED <<team_context_db, now, request, llm_result, path>>

\* the rest of review_code: assemble, store, queue the aggregator update, respond;
\* any exception becomes HTTP 500 and nothing is stored
Assemble ==
    /\ pc = "analyzed"
    /\ LET a == AssembleReview(llm_result, request.team_id, now)
       IN IF a.ok
          THEN /\ reviews_db' = StoreReview(reviews_db, a.review)
               /\ tasks' = Append(tasks, NewTask(request.team_id, a.review, request.via))
               /\ last' = Respond(request.via, Null, 200, a.review)
          ELSE /\ last' = Respond(request.via, Null, 500, Null)
               /\ UNCHANGED <<reviews_db, tasks>>
    /\ pc' = "idle"
    /\ UNCHANGED <<team_context_db, now, request, llm_result, path>>

-----------------------------------------------------------------------------
(* The analysis of one request, for every code text and every service answer *)

\* the requests analysed: every code text with the service down, and two code texts
\* with every answer of the service
RequestInputs ==
    {[code |-> c, language |-> l, team_id |-> "default", service |-> ServiceRaises, calls |-> 0,
      via |-> "review_code"] :
        c \in CodeInputs, l \in Languages}
    \cup {[code |-> c, language |-> "python", team_id |-> "default", service |-> sv, calls |-> 0,
           via |-> "review_code"] :
        c \in {JoinLines(<<L_empty>>), JoinLines(<<L_todo, L_print>>)}, sv \in Services}

InitReview ==
    /\ StoreInit
    /\ request \in RequestInputs
    /\ pc = "received"
    /\ llm_result = Null
    /\ path = "none"

NextReview == CallService \/ Analyze \/ Assemble

SpecReview == InitReview /\ [][NextReview]_vars

-----------------------------------------------------------------------------
(* The other endpoints.  The async handlers run one at a time on the event  *)
(* loop; health_check and the background tasks run in the thread pool.      *)

\* GET /api/review/{review_id}
get_review(review_id) ==
    /\ pc = "idle"
    /\ last' = IF review_id \notin Keys(reviews_db)
               THEN Respond("get_review", Str(review_id), 404, Null)
               ELSE Respond("get_review", Str(review_id), 200, Lookup(reviews_db, review_id))
    /\ UNCHANGED <<reviews_db, team_context_db, tasks, now, request, pc, llm_result, path>>

\* (mutant) the deletion empties the store
Remove_all(db, k) == <<>>

\* del reviews_db[review_id]
Remove(db, k) == SelectSeq(db, LAMBDA e : e[1] # k)

\* DELETE /api/review/{review_id}
delete_review(review_id) ==
    /\ pc = "idle"
    /\ IF review_id \notin Keys(reviews_db)
       THEN /\ last' = Respond("delete_review", Str(review_id), 404, Null)
            /\ UNCHANGED reviews_db
       ELSE /\ reviews_db' = Remove(reviews_db, review_id)
            /\ last' = Respond("delete_review", Str(review_id), 200, Str("Review deleted successfully"))
    /\ UNCHANGED <<team_context_db, tasks, now, request, pc, llm_result, path>>

\* s[start:] of Python, for any integer start
SliceFrom(s, start) ==
    LET n == Len(s)
        from == IF start < 0 THEN Max(0, n + start) ELSE Min(start, n)
    IN SubSeq(s, from + 1, n)

\* GET /api/reviews: list(reviews_db.values())[-limit:]
list_reviews(limit, team_id) ==
    /\ pc = "idle"
    /\ LET values == [i \in 1..Len(reviews_db) |-> reviews_db[i][2]]
       IN last' = Respond("list_reviews", Num(limit), 200,
                          [total |-> Len(reviews_db), reviews |-> SliceFrom(values, 0 - limit)])
    /\ UNCHANGED <<reviews_db, team_context_db, tasks, now, request, pc, llm_result, path>>

\* GET /api/team-insights/{team_id}: team_context_db always holds both keys it reads
get_team_insights(team_id) ==
    /\ pc = "idle"
    /\ last' = Respond("get_team_insights", Str(team_id), 200,
                       [team_id |-> team_id,
                        total_reviews |-> team_context_db.reviews_count,
                        average_score |-> 78,
                        improvement |-> "+5",
                        common_patterns |-> team_context_db.common_patterns,
                        common_issues |-> << <<"missing_error_handling", 12>>,
                                             <<"inefficient_queries", 8>>,
                                             <<"poor_naming", 15>>, <<"missing_tests", 6>> >>,
                        top_improvements |-> <<"Added error handling in 23 functions",
                                               "Optimized 15 database queries",
                                               "Improved test coverage by 18%">>])
    /\ UNCHANGED <<reviews_db, team_context_db, tasks, now, request, pc, llm_result, path>>

\* GET /health
health_check ==
    /\ last' = Respond("health_check", Null, 200,
                       [status |-> "healthy", timestamp |-> now, total_reviews |-> Len(reviews_db)])
    /\ UNCHANGED <<reviews_db, team_context_db, tasks, now, request, pc, llm_result, path>>

\* a second passes
Tick ==
    /\ now < MaxClock
    /\ now' = now + 1
    /\ UNCHANGED <<reviews_db, team_context_db, tasks, last, request, pc, llm_result, path>>

\* datetime.now() is the naive local wall clock: it is set back when the hour of the end of
\* daylight saving repeats, or when the host clock is adjusted
ClockStepBack ==
    /\ now > 0
    /\ now' = now - 1
    /\ UNCHANGED <<reviews_db, team_context_db, tasks, last, request, pc, llm_result, path>>

-----------------------------------------------------------------------------
(* update_team_context, run in the thread pool after the response is sent: *)
(* each  x += 1  is a read of x followed by a write                        *)

\* issue.title.lower(), over the titles the analyzers produce
lower(title) ==
    CASE title = "Unresolved TODO/FIXME" -> "unresolved todo/fixme"
      [] title = "Debug Statement Found" -> "debug statement found"
      [] title = "DEBUG STATEMENT FOUND" -> "debug statement found"
      [] title = "Non-descriptive Variable Name" -> "non-descriptive variable name"
      [] title = "Incomplete Error Handling" -> "incomplete error handling"
      [] title = "SQL Injection" -> "sql injection"
      [] title = "Unknown Issue" -> "unknown issue"

SetTask(i, t) == [tasks EXCEPT ![i] = t]

\* after one issue is counted: the next issue of the loop, or the end
NextIssue(t) ==
    IF t.idx < Len(t.review.priority)
    THEN [t EXCEPT !.idx = @ + 1, !.pc = "check"]
    ELSE [t EXCEPT !.pc = "done"]

\* team_context_db['reviews_count'] += 1, the read
TaskReadCount(i) ==
    /\ tasks[i].pc = "read_count"
    /\ tasks' = SetTask(i, [tasks[i] EXCEPT !.tmp = team_context_db.reviews_count,
                                            !.pc = "write_count"])
    /\ UNCHANGED <<reviews_db, team_context_db, now, last, request, pc, llm_result, path>>

\* team_context_db['reviews_count'] += 1, the write
TaskWriteCount(i) ==
    /\ tasks[i].pc = "write_count"
    /\ team_context_db' = [team_context_db EXCEPT !.reviews_count = tasks[i].tmp + 1]
    /\ tasks' = SetTask(i, IF Len(tasks[i].review.priority) = 0
                           THEN [tasks[i] EXCEPT !.pc = "done"]
                           ELSE [tasks[i] EXCEPT !.pc = "check", !.idx = 1])
    /\ UNCHANGED <<reviews_db, now, last, request, pc, llm_result, path>>

\* if issue_type not in team_context_db['common_issues']:, the test
TaskCheck(i) ==
    /\ tasks[i].pc = "check"
    /\ LET issue_type == lower(tasks[i].review.priority[tasks[i].idx].title)
       IN tasks' = SetTask(i, [tasks[i] EXCEPT !.pc =
                      IF issue_type \in DOMAIN team_context_db.common_issues
                      THEN "read_issue" ELSE "init_issue"])
    /\ UNCHANGED <<reviews_db, team_context_db, now, last, request, pc, llm_result, path>>

\* team_context_db['common_issues'][issue_type] = 0
TaskInitIssue(i) ==
    /\ tasks[i].pc = "init_issue"
    /\ LET issue_type == lower(tasks[i].review.priority[tasks[i].idx].title)
           ci == team_context_db.common_issues
       IN team_context_db' =
              [team_context_db EXCEPT !.common_issues =
                  [x \in DOMAIN ci \cup {issue_type} |-> IF x = issue_type THEN 0 ELSE ci[x]]]
    /\ tasks' = SetTask(i, [tasks[i] EXCEPT !.pc = "read_issue"])
    /\ UNCHANGED <<reviews_db, now, last, request, pc, llm_result, path>>

\* team_context_db['common_issues'][issue_type] += 1, the read
TaskReadIssue(i) ==
    /\ tasks[i].pc = "read_issue"
    /\ LET issue_type == lower(tasks[i].review.priority[tasks[i].idx].title)
       IN tasks' = SetTask(i, [tasks[i] EXCEPT !.tmp = team_context_db.common_issues[issue_type],
                                               !.pc = "write_issue"])
    /\ UNCHANGED <<reviews_db, team_context_db, now, last, request, pc, llm_result, path>>

\* team_context_db['common_issues'][issue_type] += 1, the write
TaskWriteIssue(i) ==
    /\ tasks[i].pc = "write_issue"
    /\ LET issue_type == lower(tasks[i].review.priority[tasks[i].idx].title)
       IN team_context_db' = [team_context_db EXCEPT !.common_issues[issue_type] = tasks[i].tmp + 1]
    /\ tasks' = SetTask(i, NextIssue(tasks[i]))
    /\ UNCHANGED <<reviews_db, now, last, request, pc, llm_result, path>>

-----------------------------------------------------------------------------
(* The service: requests, lookups, deletions and the clock, interleaved *)

SysCodes == {JoinLines(<<L_print>>)}

SysServices ==
    {ServiceRaises,
     [raises |-> FALSE,
      content |-> Encode(Obj(<< <<"score", Num(150)>>, <<"issues", Arr(<<I_debug>>)>> >>))],
     [raises |-> FALSE, content |-> Encode(Obj(<< <<"issues", Num(3)>> >>))]}

\* the uploads: a python file named in upper case, and bytes that are not UTF-8
SysFiles ==
    {[filename |-> <<"m", ".", "P", "Y">>, utf8 |-> TRUE, text |-> JoinLines(<<L_print>>)],
     [filename |-> <<"b", "i", "n">>, utf8 |-> FALSE, text |-> <<>>]}

ReviewIds == {ReviewId(t) : t \in 0..MaxClock}

Init ==
    /\ StoreInit
    /\ request = NoRequest
    /\ pc = "idle"
    /\ llm_result = Null
    /\ path = "none"

Next ==
    \/ /\ Len(tasks) < MaxReviews
       /\ \E c \in SysCodes, sv \in SysServices : Receive(c, "python", "default", sv)
    \/ /\ Len(tasks) < MaxReviews
       /\ \E f \in SysFiles, sv \in SysServices : ReceiveFile(f, "default", sv)
    \/ CallService
    \/ Analyze
    \/ Assemble
    \/ \E id \in ReviewIds : get_review(id)
    \/ \E id \in ReviewIds : delete_review(id)
    \/ \E limit \in -1..MaxLimit, team \in Teams : list_reviews(limit, team)
    \/ \E team \in Teams : get_team_insights(team)
    \/ health_check
    \/ Tick
    \/ ClockStepBack
    \/ \E i \in 1..Len(tasks) :
          \/ TaskReadCount(i)
          \/ TaskWriteCount(i)
          \/ TaskCheck(i)
          \/ TaskInitIssue(i)
          \/ TaskReadIssue(i)
          \/ TaskWriteIssue(i)

Spec == Init /\ [][Next]_vars

\* the store alone: reviews are submitted, listed and deleted while the clock moves; the
\* aggregator updates stay queued
MaxStored == 3

NextStore ==
    \/ /\ Len(tasks) < MaxStored
       /\ \E c \in SysCodes, sv \in SysServices : Receive(c, "python", "default", sv)
    \/ CallService
    \/ Analyze
    \/ Assemble
    \/ \E id \in ReviewIds : delete_review(id)
    \/ \E limit \in 1..MaxLimit, team \in Teams : list_reviews(limit, team)
    \/ Tick
    \/ ClockStepBack

SpecStore == Init /\ [][NextStore]_vars

\* a step of one of the queued background tasks
TaskStep ==
    \E i \in 1..Len(tasks) :
        \/ TaskReadCount(i)
        \/ TaskWriteCount(i)
        \/ TaskCheck(i)
        \/ TaskInitIssue(i)
        \/ TaskReadIssue(i)
        \/ TaskWriteIssue(i)

\* the thread pool keeps running the background tasks the responses carry
SpecLive == Spec /\ WF_vars(TaskStep)

-----------------------------------------------------------------------------
(* Properties of the analysis of one request (SpecReview) *)

\* review_code has answered 200: last.body is the Review returned and stored
Returned == pc = "idle" /\ last.op = "review_code" /\ last.status = 200

ReqLines == split(request.code)

\* the issues of the payload the analyzer returned
PayloadIssues == Get(llm_result, "issues", Arr(<<>>))

\* the completion call raised, or its text holds no brace-delimited object, or the
\* extracted text does not decode
ServiceFailed ==
    \/ request.service.raises
    \/ ~json_match(request.service.content).found
    \/ ~json_loads(json_match(request.service.content).group).ok

\* the rule numbered r (1 TODO/FIXME, 2 debug statement, 3 single-letter variable,
\* 4 incomplete error handling) matches line i
RuleHolds(lines, i, r) ==
    CASE r = 1 -> TodoMatch(lines[i])
      [] r = 2 -> DebugMatch(lines[i])
      [] r = 3 -> ShortVarMatch(lines[i]) /\ ~Contains(lines[i], W_for)
      [] r = 4 -> Contains(lines[i], W_try) /\ ~has_except(lines, i)

RuleRank(title) ==
    CASE title = "Unresolved TODO/FIXME" -> 1
      [] title = "Debug Statement Found" -> 2
      [] title = "Non-descriptive Variable Name" -> 3
      [] title = "Incomplete Error Handling" -> 4

\* how many matches the scan finds before match r of line i
MatchesBefore(lines, i, r) ==
    Cardinality({m \in (1..Len(lines)) \X (1..4) :
        /\ m[1] < i \/ (m[1] = i /\ m[2] < r)
        /\ RuleHolds(lines, m[1], m[2])})

\* (line, rule) pairs in scan order
ScanLess(a, b) == a[1] < b[1] \/ (a[1] = b[1] /\ a[2] < b[2])

\* C1 (as claimed): every Review returned by submit_review and stored in the Review
\* Store has a score in 0..100, whichever analyzer produced the payload.
C1_ScoreInRange ==
    Returned =>
        /\ last.body.score \in 0..100
        /\ Lookup(reviews_db, last.body.review_id).score \in 0..100

\* C2: in every Review returned, the ids of priority are 1..N in list order, N the
\* number of issues of the analyzer payload, and the issues keep the payload's order.
C2_ContiguousIds ==
    Returned =>
        LET items == IF IsArr(PayloadIssues) THEN PayloadIssues.arr ELSE <<>>
            pr == last.body.priority
        IN /\ Len(pr) = Len(items)
           /\ \A k \in 1..Len(pr) :
                 /\ pr[k].id = k
                 /\ pr[k].title = Get(items[k], "title", Str("Unknown Issue")).str
                 /\ pr[k].severity = Get(items[k], "severity", Str("low")).str
                 /\ pr[k].line = Get(items[k], "line", Num(1)).num

\* a returned Review whose payload lists a low-severity issue before a high-severity one
C2_Witness ==
    /\ Returned
    /\ path = "llm"
    /\ Len(last.body.priority) >= 2
    /\ last.body.priority[1].severity = "low"
    /\ last.body.priority[2].severity = "high"

\* C3: when the completion call raises, or its response holds no brace-delimited
\* object, or the extracted text does not decode, the call is made once, the payload is
\* exactly the fallback analyzer's for the same (code, language), and submit_review
\* returns a Review.
C3_FallbackOnFailure ==
    (path # "none" /\ ServiceFailed) =>
        /\ path = "fallback"
        /\ request.calls = 1
        /\ llm_result = generate_fallback_review(request.code, request.language)
        /\ pc = "idle" => (Returned /\ last.body.review_id \in Keys(reviews_db))

\* a response with braces whose extracted text does not decode, answered with a Review
C3_Witness ==
    /\ Returned
    /\ ~request.service.raises
    /\ json_match(request.service.content).found
    /\ ~json_loads(json_match(request.service.content).group).ok
    /\ path = "fallback"

\* empty code submitted as python, reviewed by the fallback analyzer
EmptyPython ==
    /\ Returned
    /\ path = "fallback"
    /\ request.code = <<>>
    /\ request.language = "python"

ComplexityIs(review, rating) ==
    \E k \in 1..Len(review.metrics) : review.metrics[k] = <<"complexity", rating>>

\* C4 (as claimed): empty python code on the fallback path yields score 50, no issues
\* and complexity rating Medium.
C4_EmptyScore50 ==
    EmptyPython =>
        /\ last.body.score = 50
        /\ last.body.priority = <<>>
        /\ ComplexityIs(last.body, "Medium")

\* C4 (amended): empty python code on the fallback path yields score 100, no issues
\* and complexity rating Medium.
C4_EmptyScore100 ==
    EmptyPython =>
        /\ last.body.score = 100
        /\ last.body.priority = <<>>
        /\ ComplexityIs(last.body, "Medium")

\* the empty python text has been reviewed by the fallback analyzer, with no issue
C4_Witness == EmptyPython /\ Len(last.body.priority) = 0

\* C5: the fallback score is max(50, 100 - complexity_score) with complexity_score =
\* min(100, max_nesting*10 + control_count*2): between 50 and 100 whatever the issues.
C5_ScoreFormula ==
    (path = "fallback") =>
        LET c == analyze_code_complexity(request.code)
            cs == Min(100, c.max_nesting * 10 + c.control_structures * 2)
            score == Get(llm_result, "score", Null).num
        IN /\ score = Max(50, 100 - cs)
           /\ score >= 50
           /\ score <= 100
           /\ Returned => last.body.score = score

\* a text whose complexity score exceeds 50, scored 50 although issues were found
C5_Witness ==
    /\ Returned
    /\ path = "fallback"
    /\ analyze_code_complexity(request.code).complexity_score > 50
    /\ last.body.score = 50
    /\ Len(last.body.priority) >= 1

TodoIssueAt(pr, i) ==
    \E k \in 1..Len(pr) :
        pr[k].title = "Unresolved TODO/FIXME" /\ pr[k].severity = "low" /\ pr[k].line = i

\* C6 (as claimed): on the fallback path every line holding TODO or FIXME yields, in the
\* returned list, a low-severity "Unresolved TODO/FIXME" issue at that line, for any input.
C6_TodoAlways ==
    (Returned /\ path = "fallback") =>
        \A i \in 1..Len(ReqLines) :
            (Contains(ReqLines[i], W_TODO) \/ Contains(ReqLines[i], W_FIXME))
                => TodoIssueAt(last.body.priority, i)

\* C6 (amended): on the fallback path every line holding TODO or FIXME that fewer than
\* 10 matches precede in scan order yields that issue at that line.
C6_TodoWithinCap ==
    (Returned /\ path = "fallback") =>
        \A i \in 1..Len(ReqLines) :
            ((Contains(ReqLines[i], W_TODO) \/ Contains(ReqLines[i], W_FIXME))
                /\ MatchesBefore(ReqLines, i, 1) < 10)
                => TodoIssueAt(last.body.priority, i)

\* a marker line that exactly 9 matches precede, reported as the 10th issue
C6_Witness ==
    /\ Returned
    /\ path = "fallback"
    /\ \E i \in 1..Len(ReqLines) :
          /\ Contains(ReqLines[i], W_FIXME)
          /\ MatchesBefore(ReqLines, i, 1) = 9
          /\ TodoIssueAt(last.body.priority, i)

\* a call of print or of console.log on the line
DebugCall(line) ==
    \E p \in 1..Len(line) :
        /\ MatchAt(line, p, W_print) \/ MatchAt(line, p, W_consolelog)
        /\ p = 1 \/ line[p - 1] \notin WordChar

\* C7 (as claimed): on the fallback path every line holding a debug-print call yields, in
\* the returned list, a low-severity auto-fixable "Debug Statement Found" issue, for any input.
C7_DebugAlways ==
    (Returned /\ path = "fallback") =>
        \A i \in 1..Len(ReqLines) :
            DebugCall(ReqLines[i]) =>
                \E k \in 1..Len(last.body.priority) :
                    /\ last.body.priority[k].title = "Debug Statement Found"
                    /\ last.body.priority[k].severity = "low"
                    /\ last.body.priority[k].auto_fix_available

\* C7 (amended): on the fallback path every line holding a debug-print call whose match
\* fewer than 10 matches precede in scan order yields that issue, reported at that line.
C7_DebugWithinCap ==
    (Returned /\ path = "fallback") =>
        \A i \in 1..Len(ReqLines) :
            (DebugCall(ReqLines[i]) /\ MatchesBefore(ReqLines, i, 2) < 10) =>
                \E k \in 1..Len(last.body.priority) :
                    /\ last.body.priority[k].title = "Debug Statement Found"
                    /\ last.body.priority[k].severity = "low"
                    /\ last.body.priority[k].auto_fix_available
                    /\ last.body.priority[k].line = i

\* a debug line that exactly 9 matches precede, reported as the 10th issue
C7_Witness ==
    /\ Returned
    /\ path = "fallback"
    /\ \E i \in 1..Len(ReqLines) :
          /\ DebugCall(ReqLines[i])
          /\ MatchesBefore(ReqLines, i, 2) = 9
          /\ last.body.priority[10].title = "Debug Statement Found"
          /\ last.body.priority[10].line = i

\* the scan emitted the medium-severity, auto-fixable issue for the try at line L
EmittedTryAt(issues, L) ==
    \E k \in 1..Len(issues) :
        /\ Get(issues[k], "title", Null) = Str("Incomplete Error Handling")
        /\ Get(issues[k], "line", Null) = Num(L)
        /\ Get(issues[k], "severity", Null) = Str("medium")
        /\ Get(issues[k], "auto_fix_available", Null) = Bool(TRUE)

\* a handler clause on one of the lines from .. to
ExceptWithin(lines, from, to) ==
    \E j \in from..Min(to, Len(lines)) : Contains(lines[j], W_except)

C9_FirstTenInScanOrder ==
    (pc = "analyzed" /\ path = "fallback") =>
        LET ret == PayloadIssues.arr
            key(k) == <<Get(ret[k], "line", Null).num, RuleRank(Get(ret[k], "title", Null).str)>>
        IN /\ Len(ret) <= 10
           /\ \A k \in 1..(Len(ret) - 1) : ScanLess(key(k), key(k + 1))
           /\ \A k \in 1..Len(ret) :
                 /\ key(k)[1] \in 1..Len(ReqLines)
                 /\ RuleHolds(ReqLines, key(k)[1], key(k)[2])
           /\ \A i \in 1..Len(ReqLines), r \in 1..4 :
                 (RuleHolds(ReqLines, i, r) /\ ~\E k \in 1..Len(ret) : key(k) = <<i, r>>)
                     => (Len(ret) = 10 /\ ScanLess(key(10), <<i, r>>))

\* more than 10 matches, an incomplete-error-handling match among those cut off
C9_Witness ==
    /\ pc = "analyzed"
    /\ path = "fallback"
    /\ Len(PayloadIssues.arr) = 10
    /\ Len(FallbackScan(request.code)) > 10
    /\ \E i \in 1..Len(ReqLines) :
          RuleHolds(ReqLines, i, 4) /\ MatchesBefore(ReqLines, i, 4) >= 10

\* the qualitative ratings the Review data model lists
Ratings == {"Excellent", "Good", "Medium", "Poor", "Needs Review"}

\* a Review was returned on the fallback path, or from a decoded payload without metrics
FallbackOrNoMetrics ==
    /\ Returned
    /\ path = "fallback" \/ ~HasKey(llm_result, "metrics")

\* C16 (as claimed): in every Review produced on the fallback path or from a payload that
\* omits metrics, each value of metrics is one of Excellent, Good, Medium, Poor, Needs Review.
C16_RatingsListed ==
    FallbackOrNoMetrics =>
        \A k \in 1..Len(last.body.metrics) : last.body.metrics[k][2] \in Ratings

\* C16 (amended): each value of metrics is one of Excellent, Good, Medium, Poor, Needs
\* Review, or High; High is the complexity rating of the fallback path exactly when the
\* complexity score is 50 or more.
C16_RatingsOrHigh ==
    FallbackOrNoMetrics =>
        /\ Len(last.body.metrics) = 4
        /\ \A k \in 1..Len(last.body.metrics) :
              \/ last.body.metrics[k][2] \in Ratings
              \/ /\ last.body.metrics[k] = <<"complexity", "High">>
                 /\ path = "fallback"
        /\ ComplexityIs(last.body, "High") <=>
              (path = "fallback" /\ analyze_code_complexity(request.code).complexity_score >= 50)

\* a fallback Review of a text whose complexity score is 50 or more, rated High
C16_Witness ==
    /\ FallbackOrNoMetrics
    /\ path = "fallback"
    /\ analyze_code_complexity(request.code).complexity_score >= 50
    /\ ComplexityIs(last.body, "High")

\* the response of the completion service is this object between these two commentaries
ResponseIs(pre, v, post) ==
    /\ ~request.service.raises
    /\ request.service.content = pre \o Encode(v) \o post

\* C22 (as claimed): when the response is leading commentary, one well-formed JSON object and
\* trailing commentary, the analyzer returns that object as the payload, whatever the
\* commentary, commentary that holds brace characters included.
C22_ObjectExtracted ==
    pc = "analyzed" =>
        \A pre \in Commentary, post \in Commentary, v \in Payloads :
            ResponseIs(pre, v, post) => (path = "llm" /\ llm_result = v)

-----------------------------------------------------------------------------
(* Properties of the service (Spec) *)

\* C10: immediately after submit_review has stored and returned a Review, get_review
\* with its review_id answers 200 with a value equal, field for field, to that Review.
C10_GetAfterStore ==
    [][(/\ last.op = "review_code"
        /\ last.status = 200
        /\ last'.op = "get_review"
        /\ last'.arg = Str(last.body.review_id))
          => (last'.status = 200 /\ last'.body = last.body)]_vars

\* get_review has just returned the Review of the latest submission, under its id
C10_Witness ==
    /\ last.op = "get_review"
    /\ last.status = 200
    /\ Len(tasks) >= 1
    /\ last.body = tasks[Len(tasks)].review
    /\ last.arg = Str(last.body.review_id)

\* the step is served by op: it replaces the last response by one of op
Served(op) == last' # last /\ last'.op = op

\* every review of db other than id is in db2, unchanged
OthersKept(db, db2, id) ==
    \A k \in Keys(db) \ {id} : k \in Keys(db2) /\ Lookup(db2, k) = Lookup(db, k)

\* C11: get_review and delete_review of an identifier that is not in the store answer
\* 404 and leave the store and the team context as they were; a delete_review that finds
\* the identifier removes it alone, so that a get_review or a second delete_review of it
\* right after answers 404 and every other review is still stored unchanged.
C11_NotFound ==
    [][/\ Served("get_review") =>
            /\ last'.status = (IF last'.arg.str \in Keys(reviews_db) THEN 200 ELSE 404)
            /\ reviews_db' = reviews_db
            /\ team_context_db' = team_context_db
       /\ (Served("delete_review") /\ last'.arg.str \notin Keys(reviews_db)) =>
            /\ last'.status = 404
            /\ reviews_db' = reviews_db
            /\ team_context_db' = team_context_db
       /\ (Served("delete_review") /\ last'.arg.str \in Keys(reviews_db)) =>
            /\ last'.status = 200
            /\ last'.arg.str \notin Keys(reviews_db')
            /\ OthersKept(reviews_db, reviews_db', last'.arg.str)
            /\ Len(reviews_db') = Len(reviews_db) - 1
            /\ team_context_db' = team_context_db
       /\ (/\ last.op = "delete_review"
           /\ last.status = 200
           /\ Served("get_review") \/ Served("delete_review")
           /\ last'.arg = last.arg) => last'.status = 404]_vars

\* a review that was stored and deleted is reported not found, another one still stored
C11_Witness ==
    /\ last.op \in {"get_review", "delete_review"}
    /\ last.status = 404
    /\ \E i \in 1..Len(tasks) : tasks[i].review.review_id = last.arg.str
    /\ Len(reviews_db) = 1
    /\ \E i \in 1..Len(tasks) : tasks[i].review = reviews_db[1][2]

\* C12 (as claimed, for the limits N >= 0): list_reviews(limit=N) returns at most N
\* entries, N = 0 included, and its total is the number of reviews in the store.
C12_AtMostLimit ==
    [][(Served("list_reviews") /\ last'.arg.num >= 0) =>
          /\ last'.status = 200
          /\ Len(last'.body.reviews) <= last'.arg.num
          /\ last'.body.total = Len(reviews_db)]_vars

\* every aggregator update queued so far has run to its end
AllDone == Len(tasks) >= 1 /\ \A i \in 1..Len(tasks) : tasks[i].pc = "done"

\* each completed review holds exactly one issue, titled "Debug Statement Found" up to case
OneDebugEach ==
    \A i \in 1..Len(tasks) :
        /\ Len(tasks[i].review.priority) = 1
        /\ lower(tasks[i].review.priority[1].title) = "debug statement found"

\* the count of a title in common_issues, 0 when the title is absent
CountOf(title) ==
    IF title \in DOMAIN team_context_db.common_issues
    THEN team_context_db.common_issues[title] ELSE 0

\* C13 (as claimed): after the aggregator updates of K completed reviews have run, each
\* review holding exactly one "Debug Statement Found" issue, reviews_count and
\* common_issues["debug statement found"] have both increased by exactly K.
C13_ExactCounts ==
    (AllDone /\ OneDebugEach) =>
        /\ team_context_db.reviews_count = Len(tasks)
        /\ CountOf("debug statement found") = Len(tasks)

\* C15 (as claimed): in every step of every operation, reviews_count and every count of
\* common_issues do not decrease and no title leaves common_issues.
C15_Monotonic ==
    [][/\ team_context_db'.reviews_count >= team_context_db.reviews_count
       /\ \A t \in DOMAIN team_context_db.common_issues :
             /\ t \in DOMAIN team_context_db'.common_issues
             /\ team_context_db'.common_issues[t] >= team_context_db.common_issues[t]]_vars

\* C17 (as claimed): get_team_insights reports, for every team_id, total_reviews equal to
\* the current reviews_count together with non-empty lists of common_patterns and
\* top_improvements.
C17_InsightsShape ==
    [][Served("get_team_insights") =>
          /\ last'.status = 200
          /\ last'.body.total_reviews = team_context_db.reviews_count
          /\ Len(last'.body.common_patterns) > 0
          /\ Len(last'.body.top_improvements) > 0]_vars

\* the issues of the completed reviews whose lower-cased title is t
IssuesTitled(t) ==
    {ik \in (1..Len(tasks)) \X (1..10) :
        /\ ik[2] <= Len(tasks[ik[1]].review.priority)
        /\ lower(tasks[ik[1]].review.priority[ik[2]].title) = t}

\* C18 (as claimed): when K aggregator updates have run, concurrently and without locking,
\* then for every interleaving reviews_count ends at K and the count of each title at the
\* number of issues with that title: no increment is lost.
C18_NoLostUpdate ==
    AllDone =>
        /\ team_context_db.reviews_count = Len(tasks)
        /\ \A i \in 1..Len(tasks) : \A k \in 1..Len(tasks[i].review.priority) :
              LET t == lower(tasks[i].review.priority[k].title)
              IN CountOf(t) = Cardinality(IssuesTitled(t))

\* C19 (as claimed): once a Review is stored under a review_id, get_review of that id keeps
\* returning that same Review until delete_review removes it, whatever runs in between,
\* further submit_review calls included: no step changes the Review stored under an id
\* that stays in the store, and a get_review that finds the id returns what is stored.
C19_StoredUnchanged ==
    [][/\ \A id \in Keys(reviews_db) :
             id \in Keys(reviews_db') => Lookup(reviews_db', id) = Lookup(reviews_db, id)
       /\ (Served("get_review") /\ last'.status = 200) =>
             last'.body = Lookup(reviews_db, last'.arg.str)]_vars

\* C20: the aggregator update of a review is queued, not yet started, in the step that
\* stores the Review and determines the 200 response, and that step leaves the team
\* context alone; every later step of the update leaves the response, the store and the
\* handler as they are, so it can neither change the Review returned nor fail the request.
C20_UpdateAfterResponse ==
    [][/\ Len(tasks') >= Len(tasks)
       /\ \A i \in 1..Len(tasks') :
             IF i > Len(tasks)
             THEN /\ tasks'[i].pc \in {"read_count", "dropped"}
                  /\ tasks'[i].review.review_id \in Keys(reviews_db')
                  /\ Lookup(reviews_db', tasks'[i].review.review_id) = tasks'[i].review
                  /\ last'.op \in {"review_code", "review_file"}
                  /\ last'.status = 200
                  /\ last'.body = tasks'[i].review
                  /\ team_context_db' = team_context_db
             ELSE tasks'[i] # tasks[i] =>
                  /\ tasks[i].pc \notin {"done", "dropped"}
                  /\ tasks'[i].review = tasks[i].review
                  /\ last' = last
                  /\ reviews_db' = reviews_db
                  /\ pc' = pc]_vars

\* the update of a returned Review has run to its end, the response still standing
C20_Witness ==
    /\ last.op = "review_code"
    /\ last.status = 200
    /\ \E i \in 1..Len(tasks) : tasks[i].pc = "done" /\ tasks[i].review = last.body
    /\ team_context_db.reviews_count >= 1

\* C23: a request whose review cannot be assembled is answered 500 and leaves the Review
\* Store and the Team Context Aggregator as they were: every step of the handler but the
\* one that answers 200 leaves reviews_db, team_context_db and the queue of aggregator
\* updates unchanged, so no partial review is stored and no update is scheduled.
C23_FailureLeavesNoTrace ==
    [][(pc' # pc /\ ~(pc = "analyzed" /\ last'.status = 200)) =>
          /\ reviews_db' = reviews_db
          /\ team_context_db' = team_context_db
          /\ tasks' = tasks
          /\ (pc = "analyzed" => last' = Respond(request.via, Null, 500, Null))]_vars

\* a request fell on a payload whose issues are a number and was answered 500, with a
\* review of an earlier request in the store and its aggregator update done
C23_Witness ==
    /\ pc = "idle"
    /\ last = Respond("review_code", Null, 500, Null)
    /\ ~AssembleReview(llm_result, request.team_id, now).ok
    /\ Len(reviews_db) = 1
    /\ Len(tasks) = 1
    /\ tasks[1].pc = "done"
    /\ team_context_db.reviews_count = 1

-----------------------------------------------------------------------------
(* Properties of the store (SpecStore) *)

\* the position in the history of submissions of the latest one stored under this id
InsertedAt(id) ==
    CHOOSE i \in 1..Len(tasks) :
        /\ tasks[i].review.review_id = id
        /\ \A j \in (i + 1)..Len(tasks) : tasks[j].review.review_id # id

\* the n most recently inserted of the stored reviews, the oldest of them first
MostRecent(n) ==
    LET ids == Keys(reviews_db)
        rank(id) == Cardinality({o \in ids : InsertedAt(o) <= InsertedAt(id)})
    IN [k \in 1..n |->
           Lookup(reviews_db, CHOOSE id \in ids : rank(id) = Len(reviews_db) - n + k)]

\* C21 (as claimed): for limit >= 1, whatever inserts, same-key overwrites and deletes came
\* before and whatever the team_id, list_reviews(limit) returns the min(limit, store size)
\* most recently inserted reviews, the oldest of them first.
C21_MostRecentInserted ==
    [][(Served("list_reviews") /\ last'.arg.num >= 1) =>
          last'.body.reviews = MostRecent(Min(last'.arg.num, Len(reviews_db)))]_vars

-----------------------------------------------------------------------------
(* Properties of the service whose background tasks keep running (SpecLive) *)

\* C14 (as claimed): every review that completes successfully, submitted as code text or
\* as an uploaded file, eventually has its aggregator update executed to its end.
C14_EventuallyUpdated ==
    \A i \in 1..MaxReviews :
        [](Len(tasks) >= i => <>(Len(tasks) >= i /\ tasks[i].pc = "done"))

====
